---- MODULE Spec2Model ----
(***************************************************************************)
(* Model of the spot-instance combination scripts:                         *)
(*   src/spotplacementscore.py  ranks subsets by average placement score   *)
(*                              and average spot price;                    *)
(*   src/script.py              totals per-type placement scores and keeps *)
(*                              the best subset.                           *)
(* Instance-type identifiers are integers standing for the names in string *)
(* order.  Floats are exact fractions [num, den]; round(x, d) is a value   *)
(* scaled by 10^d.  Prices are in units of 0.0001 currency.                *)
(***************************************************************************)
EXTENDS Integers, Sequences, FiniteSets, TLC

VARIABLES
    prog,              \* which script runs: "spotplacementscore" or "script"
    pc,                \* position in main
    instance_types,    \* main: the filtered candidate list
    subsets,           \* main: powerset(instance_types, 3)
    idx,               \* number of subsets the loop has finished
    response,          \* outcome of the last get_spot_placement_scores call
    avg_score,         \* spotplacementscore.main: avg_score
    prices,            \* get_average_spot_price: prices (of the last call)
    priceLog,          \* outcome of each price lookup of the call in progress
    avg_price,         \* spotplacementscore.main: avg_price
    results,           \* main: results
    best_set,          \* script.main: best_set (<<>> is None, <<S>> a value)
    highest_score,     \* script.main: highest_score
    placementQueries,  \* InstanceTypes argument of every placement query issued
    priceQueries,      \* number of price queries issued
    faultLog,          \* every exception an API call raised, in order
    anyEmpty,          \* some placement query so far returned no records
    exitMsg,           \* what main reported when it returned
    arg,               \* argument of the function under test
    ret                \* its return value

vars == <<prog, pc, instance_types, subsets, idx, response, avg_score, prices,
          priceLog, avg_price, results, best_set, highest_score,
          placementQueries, priceQueries, faultLog, anyEmpty, exitMsg, arg, ret>>

----------------------------------------------------------------------------
(* Bounds *)

\* exceptions raised by API calls in one run
MaxFaults == 1
\* length of the candidate list handed to powerset under test
MaxN == 4
\* records in a placement response under test
MaxRecords == 2
\* largest placement score in a response under test
MaxScore == 2

----------------------------------------------------------------------------
(* Arithmetic *)

RECURSIVE Gcd(_, _)
Gcd(a, b) == IF b = 0 THEN a ELSE Gcd(b, a % b)

\* the float num/den, as a fraction in lowest terms
Frac(num, den) == LET g == Gcd(num, den) IN [num |-> num \div g, den |-> den \div g]

Zero == [num |-> 0, den |-> 1]

RECURSIVE Sum(_)
Sum(s) == IF s = <<>> THEN 0 ELSE Head(s) + Sum(Tail(s))

\* round(x, d) in units of 1/scale: the nearest integer to x * scale.  On an
\* exact tie the float's binary representation decides, so both neighbours
\* are possible.  Scores are rounded to hundredths (scale 100); prices are
\* already in units of 0.0001, the 4 decimals they are rounded to (scale 1).
Round(x, scale) ==
    LET n == x.num * scale
        q == n \div x.den
        r == n % x.den
    IN  IF 2 * r < x.den THEN {q}
        ELSE IF 2 * r > x.den THEN {q + 1}
        ELSE {q, q + 1}

RECURSIVE Binomial(_, _)
Binomial(n, k) ==
    IF k < 0 \/ k > n THEN 0
    ELSE IF k = 0 THEN 1
    ELSE Binomial(n - 1, k - 1) + Binomial(n - 1, k)

RECURSIVE SumBinomial(_, _)
SumBinomial(n, m) == IF m > n THEN 0 ELSE Binomial(n, m) + SumBinomial(n, m + 1)

Range(s) == {s[i] : i \in 1..Len(s)}

\* sequences over S of length at most n
SeqUpTo(S, n) == UNION {[1..k -> S] : k \in 0..n}

----------------------------------------------------------------------------
(* powerset *)

MinSize == 3

\* [f(x) for x in s]
RECURSIVE PrependAll(_, _)
PrependAll(x, ss) ==
    IF ss = <<>> THEN <<>> ELSE <<(<<x>> \o Head(ss))>> \o PrependAll(x, Tail(ss))

\* itertools.combinations(s, r): r-length subsequences in index order
RECURSIVE combinations(_, _)
combinations(s, r) ==
    IF r = 0 THEN << <<>> >>
    ELSE IF Len(s) < r THEN <<>>
    ELSE PrependAll(Head(s), combinations(Tail(s), r - 1)) \o combinations(Tail(s), r)

\* chain.from_iterable(combinations(s, r) for r in range(lo, hi))
RECURSIVE chain(_, _, _)
chain(s, lo, hi) ==
    IF lo >= hi THEN <<>> ELSE combinations(s, lo) \o chain(s, lo + 1, hi)

\* generators with a shifted lower or upper size, for comparison with powerset
powerset_below(iterable, min_size) == chain(iterable, min_size - 1, Len(iterable) + 1)

powerset_short(iterable, min_size) == chain(iterable, min_size, Len(iterable))

\* spotplacementscore.powerset: a list of lists
powerset(iterable, min_size) == chain(iterable, min_size, Len(iterable) + 1)

\* script.powerset: a list of sets
script_powerset(iterable, min_size) ==
    LET c == chain(iterable, min_size, Len(iterable) + 1)
    IN  [i \in 1..Len(c) |-> Range(c[i])]

----------------------------------------------------------------------------
(* get_filtered_instance_types *)

\* prefixes of the AMD A-series families, as character sequences
AMD_A_SERIES_INSTANCES ==
    { <<"m","5","a">>, <<"r","5","a">>, <<"c","6","a">>, <<"m","6","a">>,
      <<"t","3","a">>, <<"r","6","a">>, <<"h","p","c","6","a">>,
      <<"g","4","a","d">>, <<"m","7","a">>, <<"c","7","a">>, <<"r","7","a">> }

\* str.startswith
startswith(name, prefix) ==
    Len(prefix) <= Len(name) /\ SubSeq(name, 1, Len(prefix)) = prefix

\* The instance types the provider knows that match the vCPU and memory
\* filters, in string order: InstanceType is the rank of the name.
UniverseTypes ==
    << [InstanceType |-> 1, name |-> <<"c","6","a",".","l">>],
       [InstanceType |-> 2, name |-> <<"m","5",".","l">>],
       [InstanceType |-> 3, name |-> <<"m","5","a",".","l">>],
       [InstanceType |-> 4, name |-> <<"m","5","a","d",".","l">>],
       [InstanceType |-> 5, name |-> <<"r","5","a",".","l">>] >>

Reverse(s) == [i \in 1..Len(s) |-> s[Len(s) + 1 - i]]

\* what describe_instance_types may list: any leading part of the universe,
\* or a listing in another order
Listings ==
    {SubSeq(UniverseTypes, 1, n) : n \in 0..Len(UniverseTypes)}
        \cup {Reverse(SubSeq(UniverseTypes, 1, 4))}

\* the loop body of get_filtered_instance_types over the items of the pages
\* that were delivered
RECURSIVE FilterItems(_)
FilterItems(items) ==
    IF items = <<>> THEN <<>>
    ELSE LET it == Head(items)
         IN  (IF \E prefix \in AMD_A_SERIES_INSTANCES : startswith(it.name, prefix)
              THEN <<it.InstanceType>> ELSE <<>>) \o FilterItems(Tail(items))

\* Kinds of exception an API call raises: botocore's ClientError (an error
\* response of the service), or any other exception (a connection failure,
\* the KeyError of a response without the expected key).
Raised == {"ClientError", "Exception"}

\* script.get_filtered_instance_types catches ClientError (lines 30-31) and
\* returns what it has; spotplacementscore's has no handler.
CatalogCaught(program, kind) == program = "script" /\ kind = "ClientError"

----------------------------------------------------------------------------
(* placement scores *)

\* spotplacementscore.get_average_spot_placement_score on a response that
\* was returned or a ClientError that was raised
get_average_sum(resp) ==
    IF resp.kind = "ClientError" THEN Zero
    ELSE LET scores == [i \in 1..Len(resp.records) |-> resp.records[i].Score]
         IN  IF scores # <<>> THEN Frac(Sum(scores), 1) ELSE Zero

get_average_spot_placement_score(resp) ==
    IF resp.kind = "ClientError" THEN Zero
    ELSE LET scores == [i \in 1..Len(resp.records) |-> resp.records[i].Score]
         IN  IF scores # <<>> THEN Frac(Sum(scores), Len(scores)) ELSE Zero

Max(a, b) == IF a >= b THEN a ELSE b

\* script.get_spot_placement_scores: the dict scores, as a function on its keys.
\* A record's InstanceTypes is <<>> when the key is absent, <<S>> when present.
RECURSIVE ScoresDict(_, _)
ScoresDict(records, scores) ==
    IF records = <<>> THEN scores
    ELSE LET record == Head(records)
             types == IF record.InstanceTypes = <<>> THEN {}
                      ELSE record.InstanceTypes[1]
             upd == [itype \in (DOMAIN scores) \cup types |->
                      IF itype \in types
                      THEN Max(IF itype \in DOMAIN scores THEN scores[itype] ELSE 0,
                               record.Score)
                      ELSE scores[itype]]
         IN  ScoresDict(Tail(records), upd)

EmptyDict == [x \in {} |-> 0]

get_spot_placement_scores(resp) ==
    IF resp.kind = "ClientError" THEN EmptyDict
    ELSE ScoresDict(resp.records, EmptyDict)

\* sum(scores.values())
RECURSIVE SumValues(_)
SumValues(d) ==
    IF DOMAIN d = {} THEN 0
    ELSE LET x == CHOOSE x \in DOMAIN d : TRUE
         IN  d[x] + SumValues([y \in (DOMAIN d) \ {x} |-> d[y]])

\* script.main line 88
total_score(resp) == SumValues(get_spot_placement_scores(resp))

----------------------------------------------------------------------------
(* spot prices *)

\* get_average_spot_price line 62
average_of(ps) == IF ps # <<>> THEN Frac(Sum(ps), Len(ps)) ELSE Zero

\* what one describe_spot_price_history call does: with MaxResults=1 the
\* history holds at most one entry
PriceOutcome(kind, price) == [kind |-> kind, SpotPrice |-> price]

\* the handler of lines 59-61
PriceCaught(kind) == kind = "ClientError"

----------------------------------------------------------------------------
(* spotplacementscore.main: ranking *)

\* the sort key of line 101, compared as Python compares tuples
KeyLess(a, b) ==
    \/ a.average_score > b.average_score
    \/ a.average_score = b.average_score /\ a.average_price < b.average_price

\* list.sort is stable: x goes before the first row whose key is greater
RECURSIVE Insert(_, _)
Insert(sorted, x) ==
    IF sorted = <<>> THEN <<x>>
    ELSE IF KeyLess(x, Head(sorted)) THEN <<x>> \o sorted
    ELSE <<Head(sorted)>> \o Insert(Tail(sorted), x)

RECURSIVE SortFrom(_, _)
SortFrom(rows, acc) ==
    IF rows = <<>> THEN acc ELSE SortFrom(Tail(rows), Insert(acc, Head(rows)))

SortUnsorted(rows) == rows

SortResults(rows) == SortFrom(rows, <<>>)

\* line 90
SkipsNever(score) == FALSE

Skips(score) == score = Zero

\* lines 73 (spotplacementscore) and 71 (script): not instance_types
NoCandidatesNever(types) == FALSE

NoCandidates(types) == types = <<>>

----------------------------------------------------------------------------
(* Inputs of a run *)

Programs == {"spotplacementscore", "script"}

SampleScores == {0, 80}

SamplePrices == {1000}

NoResponse == [kind |-> "none", records |-> <<>>]

CanFail == Len(faultLog) < MaxFaults

FaultKinds == IF CanFail THEN Raised ELSE {}

\* spotplacementscore reads only the Score of a record
PlacementOutcomes ==
    {[kind |-> "ok", records |-> r] : r \in SeqUpTo([Score : SampleScores], 2)}
        \cup {[kind |-> k, records |-> <<>>] : k \in FaultKinds}

Min(S) == CHOOSE x \in S : \A y \in S : x <= y

\* script reads Score and InstanceTypes
ScriptOutcomes(query) ==
    {[kind |-> "ok", records |-> r] :
        r \in SeqUpTo([Score : SampleScores,
                       InstanceTypes : {<<>>, <<query>>, <<{Min(query)}>>}], 2)}
        \cup {[kind |-> k, records |-> <<>>] : k \in FaultKinds}

PriceOutcomes ==
    {PriceOutcome("found", p) : p \in SamplePrices}
        \cup {PriceOutcome("empty", 0)}
        \cup {PriceOutcome(k, 0) : k \in FaultKinds}

Fault(at, subset, kind) == [at |-> at, subset |-> subset, kind |-> kind]

----------------------------------------------------------------------------
(* The run of main *)

Init ==
    /\ prog \in Programs
    /\ pc = "start"
    /\ instance_types = <<>>
    /\ subsets = <<>>
    /\ idx = 0
    /\ response = NoResponse
    /\ avg_score = Zero
    /\ prices = <<>>
    /\ priceLog = <<>>
    /\ avg_price = Zero
    /\ results = <<>>
    /\ best_set = <<>>
    /\ highest_score = 0
    /\ placementQueries = <<>>
    /\ priceQueries = 0
    /\ faultLog = <<>>
    /\ anyEmpty = FALSE
    /\ exitMsg = "none"
    /\ arg = <<>>
    /\ ret = <<>>

Current == subsets[idx + 1]

Crash(at, kind) ==
    /\ pc' = "crashed"
    /\ faultLog' = Append(faultLog, Fault(at, idx + 1, kind))

\* get_filtered_instance_types: the listing arrives in two pages, the second
\* starting after item j; an exception may be raised instead of page 1 or 2
FetchInstanceTypes ==
    /\ pc = "start"
    /\ \E listed \in Listings :
          \/ /\ instance_types' = FilterItems(listed)
             /\ pc' = "fetched"
             /\ UNCHANGED faultLog
          \/ \E j \in 0..Len(listed), kind \in FaultKinds :
                /\ faultLog' = Append(faultLog, Fault("catalog", 0, kind))
                /\ IF CatalogCaught(prog, kind)
                   THEN /\ instance_types' = FilterItems(SubSeq(listed, 1, j))
                        /\ pc' = "fetched"
                   ELSE /\ pc' = "crashed"
                        /\ UNCHANGED instance_types
    /\ UNCHANGED <<prog, anyEmpty, subsets, idx, response, avg_score, prices, priceLog,
                   avg_price, results, best_set, highest_score,
                   placementQueries, priceQueries, exitMsg, arg, ret>>

\* main after the listing: the early return, or the power set
CheckCandidates ==
    /\ pc = "fetched"
    /\ IF NoCandidates(instance_types)
       THEN /\ pc' = "done"
            /\ exitMsg' = "no_match"
            /\ UNCHANGED subsets
       ELSE /\ subsets' = IF prog = "script"
                          THEN script_powerset(instance_types, MinSize)
                          ELSE powerset(instance_types, MinSize)
            /\ pc' = "loop"
            /\ UNCHANGED exitMsg
    /\ UNCHANGED <<prog, anyEmpty, instance_types, idx, response, avg_score, prices,
                   priceLog, avg_price, results, best_set, highest_score,
                   placementQueries, priceQueries, faultLog, arg, ret>>

\* spotplacementscore.main line 87
PlacementQuery ==
    /\ pc = "loop"
    /\ prog = "spotplacementscore"
    /\ idx < Len(subsets)
    /\ placementQueries' = Append(placementQueries, Current)
    /\ \E out \in PlacementOutcomes :
          IF out.kind = "Exception"
          THEN /\ Crash("placement", out.kind)
               /\ UNCHANGED <<response, avg_score, prices, priceLog, anyEmpty>>
          ELSE /\ response' = out
               /\ anyEmpty' = (anyEmpty \/ (out.kind = "ok" /\ out.records = <<>>))
               /\ avg_score' = get_average_spot_placement_score(out)
               /\ prices' = <<>>
               /\ priceLog' = <<>>
               /\ pc' = "price"
               /\ faultLog' = IF out.kind = "ClientError"
                              THEN Append(faultLog, Fault("placement", idx + 1, out.kind))
                              ELSE faultLog
    /\ UNCHANGED <<prog, instance_types, subsets, idx, avg_price, results,
                   best_set, highest_score, priceQueries, exitMsg, arg, ret>>

\* one turn of the loop of get_average_spot_price (lines 49-61)
PriceLookup ==
    /\ pc = "price"
    /\ Len(priceLog) < Len(Current)
    /\ priceQueries' = priceQueries + 1
    /\ \E out \in PriceOutcomes :
          /\ priceLog' = Append(priceLog, out)
          /\ IF out.kind \in Raised
             THEN IF PriceCaught(out.kind)
                  THEN /\ faultLog' = Append(faultLog, Fault("price", idx + 1, out.kind))
                       /\ UNCHANGED <<pc, prices>>
                  ELSE /\ Crash("price", out.kind)
                       /\ UNCHANGED prices
             ELSE /\ prices' = IF out.kind = "found"
                               THEN Append(prices, out.SpotPrice)
                               ELSE prices
                  /\ UNCHANGED <<pc, faultLog>>
    /\ UNCHANGED <<prog, anyEmpty, instance_types, subsets, idx, response,
                   avg_score, avg_price, results, best_set, highest_score,
                   placementQueries, exitMsg, arg, ret>>

Row(subset, score, price) ==
    [instance_set |-> subset, average_score |-> score,
     average_price |-> price, count |-> Len(subset)]

\* get_average_spot_price returns (line 62); main lines 88-99
FinishSubset ==
    /\ pc = "price"
    /\ Len(priceLog) = Len(Current)
    /\ avg_price' = average_of(prices)
    /\ IF Skips(avg_score)
       THEN UNCHANGED results
       ELSE \E s \in Round(avg_score, 100), p \in Round(avg_price', 1) :
               results' = Append(results, Row(Current, s, p))
    /\ idx' = idx + 1
    /\ pc' = "loop"
    /\ priceLog' = <<>>
    /\ UNCHANGED <<prog, anyEmpty, instance_types, subsets, response, avg_score,
                   prices, best_set, highest_score, placementQueries,
                   priceQueries, faultLog, exitMsg, arg, ret>>

\* spotplacementscore.main lines 100-114
SortAndSave ==
    /\ pc = "loop"
    /\ prog = "spotplacementscore"
    /\ idx = Len(subsets)
    /\ results' = SortResults(results)
    /\ pc' = "done"
    /\ exitMsg' = "saved"
    /\ UNCHANGED <<prog, anyEmpty, instance_types, subsets, idx, response, avg_score,
                   prices, priceLog, avg_price, best_set, highest_score,
                   placementQueries, priceQueries, faultLog, arg, ret>>

\* line 95
BetterOrEqual(total, highest) == total >= highest

Better(total, highest) == total > highest

\* script.main lines 85-97.  list(subset) orders the members of a set in an
\* unspecified way: a row and best_set carry the member set.
ScriptEvaluate ==
    /\ pc = "loop"
    /\ prog = "script"
    /\ idx < Len(subsets)
    /\ placementQueries' = Append(placementQueries, Current)
    /\ \E out \in ScriptOutcomes(Current) :
          IF out.kind = "Exception"
          THEN /\ Crash("placement", out.kind)
               /\ UNCHANGED <<response, results, best_set, highest_score, idx,
                               anyEmpty>>
          ELSE LET total == total_score(out)
               IN  /\ response' = out
                   /\ anyEmpty' = (anyEmpty \/ (out.kind = "ok" /\ out.records = <<>>))
                   /\ results' = Append(results, [instance_set |-> Current,
                                                  score |-> total])
                   /\ IF Better(total, highest_score)
                      THEN /\ highest_score' = total
                           /\ best_set' = <<Current>>
                      ELSE UNCHANGED <<highest_score, best_set>>
                   /\ idx' = idx + 1
                   /\ faultLog' = IF out.kind = "ClientError"
                                  THEN Append(faultLog, Fault("placement", idx + 1, out.kind))
                                  ELSE faultLog
                   /\ UNCHANGED pc
    /\ UNCHANGED <<prog, instance_types, subsets, avg_score, prices, priceLog,
                   avg_price, priceQueries, exitMsg, arg, ret>>

\* script.main lines 99-107
ScriptSave ==
    /\ pc = "loop"
    /\ prog = "script"
    /\ idx = Len(subsets)
    /\ pc' = "done"
    /\ exitMsg' = "saved"
    /\ UNCHANGED <<prog, anyEmpty, instance_types, subsets, idx, response, avg_score,
                   prices, priceLog, avg_price, results, best_set, highest_score,
                   placementQueries, priceQueries, faultLog, arg, ret>>

Next ==
    \/ FetchInstanceTypes
    \/ CheckCandidates
    \/ PlacementQuery
    \/ PriceLookup
    \/ FinishSubset
    \/ SortAndSave
    \/ ScriptEvaluate
    \/ ScriptSave

Spec == Init /\ [][Next]_vars

----------------------------------------------------------------------------
(* The functions on their own: inputs drawn at the start, one call *)

Idle ==
    /\ prog = "none"
    /\ pc = "call"
    /\ instance_types = <<>>
    /\ subsets = <<>>
    /\ idx = 0
    /\ response = NoResponse
    /\ avg_score = Zero
    /\ prices = <<>>
    /\ priceLog = <<>>
    /\ avg_price = Zero
    /\ results = <<>>
    /\ best_set = <<>>
    /\ highest_score = 0
    /\ placementQueries = <<>>
    /\ priceQueries = 0
    /\ faultLog = <<>>
    /\ anyEmpty = FALSE
    /\ exitMsg = "none"
    /\ ret = <<>>

Return(fn, value) ==
    /\ pc = "call"
    /\ pc' = "returned"
    /\ ret' = [fn |-> fn, value |-> value]
    /\ UNCHANGED <<prog, instance_types, subsets, idx, response, avg_score,
                   prices, priceLog, avg_price, results, best_set, highest_score,
                   placementQueries, priceQueries, faultLog, anyEmpty, exitMsg,
                   arg>>

\* lists of distinct identifiers
Injective(s) == \A i, j \in 1..Len(s) : s[i] = s[j] => i = j

CandidateLists == {s \in SeqUpTo(1..MaxN, MaxN) : Injective(s)}

InitPowerset ==
    /\ Idle
    /\ arg \in [iterable : CandidateLists, min_size : 0..(MaxN + 1)]

CallPowerset == Return("powerset", powerset(arg.iterable, arg.min_size))

CallScriptPowerset ==
    Return("script_powerset", script_powerset(arg.iterable, arg.min_size))

NextPowerset == CallPowerset \/ CallScriptPowerset

SpecPowerset == InitPowerset /\ [][NextPowerset]_vars

\* the query of the responses under test
TestQuery == {1, 3, 4}

TestRecords ==
    [Score : 0..MaxScore,
     InstanceTypes : {<<>>} \cup {<<S>> : S \in SUBSET TestQuery}]

InitScore ==
    /\ Idle
    /\ arg \in {[kind |-> "ok", records |-> r] : r \in SeqUpTo(TestRecords, MaxRecords)}
                  \cup {[kind |-> "ClientError", records |-> <<>>]}

CallAverage == Return("average", get_average_spot_placement_score(arg))

CallTotal == Return("total", total_score(arg))

NextScore == CallAverage \/ CallTotal

SpecScore == InitScore /\ [][NextScore]_vars

----------------------------------------------------------------------------
(* Vocabulary of the properties *)

SPS == prog = "spotplacementscore"

\* the loop has finished at least one subset; subsets[idx] is the last one,
\* and response, avg_score, prices and avg_price are still those of it
Evaluated == pc \in {"loop", "done"} /\ idx >= 1

InResults(subset) == \E i \in 1..Len(results) : results[i].instance_set = subset

RecordScores(resp) == [i \in 1..Len(resp.records) |-> resp.records[i].Score]

\* the subsets for which some placement or price query raised
FailedSubsets ==
    {faultLog[i].subset : i \in {j \in 1..Len(faultLog) : faultLog[j].at # "catalog"}}

CatalogFailed == \E i \in 1..Len(faultLog) : faultLog[i].at = "catalog"

CrashedAt(at) == pc = "crashed" /\ faultLog[Len(faultLog)].at = at

\* get_filtered_instance_types has returned a list
Listed == pc # "start" /\ ~CrashedAt("catalog")

QuerySize(q) == IF prog = "script" THEN Cardinality(q) ELSE Len(q)

\* position of a row's subset in generation order
GenIndex(row) == CHOOSE j \in 1..Len(subsets) : subsets[j] = row.instance_set

\* the members of a subset in ascending order
RECURSIVE SortedMembers(_)
SortedMembers(S) ==
    IF S = {} THEN <<>> ELSE <<Min(S)>> \o SortedMembers(S \ {Min(S)})

RECURSIVE LexLess(_, _)
LexLess(a, b) ==
    IF b = <<>> THEN FALSE
    ELSE IF a = <<>> THEN TRUE
    ELSE IF Head(a) # Head(b) THEN Head(a) < Head(b)
    ELSE LexLess(Tail(a), Tail(b))

SameKey(a, b) ==
    a.average_score = b.average_score /\ a.average_price = b.average_price

----------------------------------------------------------------------------
(* C1 *)

\* C1 as stated: in the evaluation loop a combination is left out of the
\* results if and only if its placement query failed or returned no scores;
\* one whose scores are all 0 is kept.
C1_SkipIffFailedOrEmpty ==
    (SPS /\ Evaluated) =>
        (~InResults(subsets[idx]) <=>
            (response.kind = "ClientError" \/ response.records = <<>>))

\* C1 amended: a combination the loop has finished is left out of the results
\* if and only if its placement query raised ClientError, returned no
\* records, or returned records whose scores average 0.
C1_SkipIffZeroAverage ==
    (SPS /\ Evaluated) =>
        (~InResults(subsets[idx]) <=>
            (\/ response.kind = "ClientError"
             \/ response.records = <<>>
             \/ Sum(RecordScores(response)) = 0))

C1_ZeroScoresSkipped ==
    /\ SPS /\ Evaluated
    /\ response.kind = "ok"
    /\ response.records # <<>>
    /\ Sum(RecordScores(response)) = 0
    /\ ~InResults(subsets[idx])
    /\ results # <<>>

----------------------------------------------------------------------------
(* C2 *)

\* C2: when the placement or price query fails for exactly one combination
\* and succeeds with a non-empty result for the others, the failure does not
\* abort the run and every other combination is in the final results.
C2_FailureIsolation ==
    /\ ~CrashedAt("placement")
    /\ ~CrashedAt("price")
    /\ (pc = "done" /\ exitMsg = "saved" /\ Cardinality(FailedSubsets) = 1 /\ ~anyEmpty)
          => \A j \in 1..Len(subsets) :
                j \notin FailedSubsets => InResults(subsets[j])

----------------------------------------------------------------------------
(* C3 *)

\* C3: powerset(candidates, m) on n distinct identifiers yields exactly
\* sum_{k=m..n} C(n,k) subsets, each a subset of the candidates with at
\* least m members, no two with the same member set.
C3_PowersetCount ==
    (pc = "returned" /\ ret.fn \in {"powerset", "script_powerset"}) =>
        LET out == ret.value
            n == Len(arg.iterable)
            members(i) == IF ret.fn = "powerset" THEN Range(out[i]) ELSE out[i]
            size(i) == IF ret.fn = "powerset" THEN Len(out[i]) ELSE Cardinality(out[i])
        IN  /\ Len(out) = SumBinomial(n, arg.min_size)
            /\ \A i \in 1..Len(out) :
                  /\ members(i) \subseteq Range(arg.iterable)
                  /\ Cardinality(members(i)) >= arg.min_size
                  /\ size(i) = Cardinality(members(i))
            /\ \A i, j \in 1..Len(out) : members(i) = members(j) => i = j

C3_FourChooseThree ==
    /\ pc = "returned"
    /\ ret.fn = "powerset"
    /\ arg = [iterable |-> <<1, 2, 3, 4>>, min_size |-> 3]
    /\ ret.value = << <<1, 2, 3>>, <<1, 2, 4>>, <<1, 3, 4>>, <<2, 3, 4>>, <<1, 2, 3, 4>> >>

----------------------------------------------------------------------------
(* C4 *)

\* C4 as stated: any two adjacent rows A, B of the ranked results have
\* A.score > B.score, or equal scores and A.price < B.price, or both equal
\* and A's sorted member sequence lexicographically smaller than B's.
C4_ThreeKeyOrder ==
    (SPS /\ pc = "done" /\ exitMsg = "saved") =>
        \A i \in 1..(Len(results) - 1) :
            LET A == results[i]
                B == results[i + 1]
            IN  \/ KeyLess(A, B)
                \/ /\ SameKey(A, B)
                   /\ LexLess(SortedMembers(Range(A.instance_set)),
                              SortedMembers(Range(B.instance_set)))

\* C4 amended: any two adjacent rows A, B of the sorted results have
\* A.score > B.score, or equal scores and A.price < B.price, or both equal
\* and A generated before B.
C4_TwoKeyStableOrder ==
    (SPS /\ pc = "done" /\ exitMsg = "saved") =>
        \A i \in 1..(Len(results) - 1) :
            LET A == results[i]
                B == results[i + 1]
            IN  \/ KeyLess(A, B)
                \/ SameKey(A, B) /\ GenIndex(A) < GenIndex(B)

C4_TieInGenerationOrder ==
    /\ SPS /\ pc = "done" /\ exitMsg = "saved"
    /\ Len(results) >= 4
    /\ \E i \in 1..(Len(results) - 1) :
          results[i].average_score > results[i + 1].average_score
    /\ \E i \in 1..(Len(results) - 1) :
          /\ results[i].average_score = results[i + 1].average_score
          /\ results[i].average_price < results[i + 1].average_price
    /\ \E i \in 1..(Len(results) - 1) :
          /\ SameKey(results[i], results[i + 1])
          /\ LexLess(SortedMembers(Range(results[i + 1].instance_set)),
                     SortedMembers(Range(results[i].instance_set)))
    /\ \E i \in 1..(Len(results) - 1) : GenIndex(results[i]) > GenIndex(results[i + 1])

----------------------------------------------------------------------------
(* C5 *)

\* the instance types a response gives a score, and the score of each: the
\* highest Score among the records that name the type
ScoredTypes(resp) ==
    UNION {resp.records[i].InstanceTypes[1] :
             i \in {j \in 1..Len(resp.records) : resp.records[j].InstanceTypes # <<>>}}

TypeScore(resp, t) ==
    LET S == {resp.records[i].Score :
                i \in {j \in 1..Len(resp.records) :
                         /\ resp.records[j].InstanceTypes # <<>>
                         /\ t \in resp.records[j].InstanceTypes[1]}}
    IN  CHOOSE x \in S : \A y \in S : y <= x

RECURSIVE SumTypeScores(_, _)
SumTypeScores(resp, T) ==
    IF T = {} THEN 0
    ELSE LET t == CHOOSE t \in T : TRUE
         IN  TypeScore(resp, t) + SumTypeScores(resp, T \ {t})

PerTypeMean(resp) ==
    Frac(SumTypeScores(resp, ScoredTypes(resp)), Cardinality(ScoredTypes(resp)))

\* C5 as stated: when the placement query returns at least one score, the
\* aggregate score is the mean of the per-type scores: their sum divided by
\* the number of types that have one; never a sum, never a mean over records.
C5_MeanOverTypes ==
    (pc = "returned" /\ ret.fn \in {"average", "total"}
        /\ arg.kind = "ok" /\ ScoredTypes(arg) # {}) =>
        IF ret.fn = "average"
        THEN ret.value = PerTypeMean(arg)
        ELSE Frac(ret.value, 1) = PerTypeMean(arg)

\* C5 amended: spotplacementscore's average is the sum of the Score of every
\* record of the response divided by the number of records; script's score is
\* the sum over the scored types of each type's highest score.
C5_MeanOverRecordsOrSum ==
    (pc = "returned" /\ ret.fn \in {"average", "total"}
        /\ arg.kind = "ok" /\ arg.records # <<>>) =>
        IF ret.fn = "average"
        THEN ret.value.num * Len(arg.records) = Sum(RecordScores(arg)) * ret.value.den
        ELSE ret.value = SumTypeScores(arg, ScoredTypes(arg))

C5_RecordsDifferFromTypes ==
    /\ pc = "returned"
    /\ ret.fn = "average"
    /\ arg.kind = "ok"
    /\ Len(arg.records) = 2
    /\ Cardinality(ScoredTypes(arg)) = 3
    /\ ret.value # PerTypeMean(arg)
    /\ ret.value.num * 2 = Sum(RecordScores(arg)) * ret.value.den

----------------------------------------------------------------------------
(* C6 *)

FoundPrices(log) ==
    LET found == SelectSeq(log, LAMBDA o : o.kind = "found")
    IN  [i \in 1..Len(found) |-> found[i].SpotPrice]

\* C6: the aggregate price is the mean of the prices of exactly the member
\* types whose lookup succeeded; a failed or not-found lookup neither stops
\* the lookups of the remaining types nor makes the combination skipped.
C6_PriceFailureTolerated ==
    /\ ~CrashedAt("price")
    /\ (SPS /\ pc = "price") => prices = FoundPrices(priceLog)
    /\ (SPS /\ Evaluated /\ prices # <<>>) =>
          avg_price = Frac(Sum(prices), Len(prices))
    /\ (SPS /\ Evaluated /\ avg_score # Zero) => InResults(subsets[idx])

----------------------------------------------------------------------------
(* C7 *)

\* C7: when the filter yields no candidate the run returns at once: no crash,
\* no combination generated, no placement or price query, no result row.
C7_EmptyShortCircuit ==
    (Listed /\ instance_types = <<>>) =>
        /\ pc \in {"fetched", "done"}
        /\ pc = "fetched" => ENABLED CheckCandidates
        /\ pc = "done" => exitMsg = "no_match"
        /\ subsets = <<>>
        /\ placementQueries = <<>>
        /\ priceQueries = 0
        /\ results = <<>>

C7_ReturnedNoMatch ==
    /\ pc = "done"
    /\ exitMsg = "no_match"
    /\ instance_types = <<>>
    /\ faultLog = <<>>

----------------------------------------------------------------------------
(* C8 *)

\* C8: a failed listing aborts the run; it is never reported as "no matching
\* instance types found".
C8_CatalogFailureFatal ==
    CatalogFailed => (pc = "crashed" /\ exitMsg # "no_match")

----------------------------------------------------------------------------
(* C9 *)

\* C9: every placement query carries at least 3 identifiers; with 0, 1 or 2
\* candidates no placement query is issued and the run does not crash.
C9_QueriesAtLeastThree ==
    /\ \A i \in 1..Len(placementQueries) : QuerySize(placementQueries[i]) >= 3
    /\ (Listed /\ Len(instance_types) < 3) =>
          /\ placementQueries = <<>>
          /\ pc # "crashed"
          /\ pc \in {"fetched", "done"} \/ ENABLED Next

C9_TwoCandidatesNoQuery ==
    /\ pc = "done"
    /\ exitMsg = "saved"
    /\ Len(instance_types) = 2
    /\ placementQueries = <<>>

----------------------------------------------------------------------------
(* C10 *)

MaxScoreOf(rows) ==
    LET S == {0} \cup {rows[i].score : i \in 1..Len(rows)}
    IN  CHOOSE x \in S : \A y \in S : y <= x

FirstWith(rows, score) ==
    LET i == CHOOSE i \in 1..Len(rows) :
                /\ rows[i].score = score
                /\ \A j \in 1..(i - 1) : rows[j].score # score
    IN  rows[i].instance_set

\* C10: in script.main, after every iteration highest_score is the maximum of
\* 0 and the totals so far, best_set is the first combination whose total is
\* highest_score, or None when no total is above 0, and results holds one row
\* per processed combination, a failed query giving a row of score 0.
C10_BestSoFar ==
    (prog = "script" /\ pc \in {"loop", "done", "crashed"} /\ Listed /\ exitMsg # "no_match") =>
        /\ Len(results) = idx
        /\ \A i \in 1..idx : results[i].instance_set = subsets[i]
        /\ highest_score = MaxScoreOf(results)
        /\ best_set = IF highest_score > 0
                      THEN <<FirstWith(results, highest_score)>>
                      ELSE <<>>
        /\ \A j \in FailedSubsets : j <= idx => results[j].score = 0

C10_TieKeepsFirst ==
    /\ prog = "script" /\ pc = "loop"
    /\ idx >= 3
    /\ highest_score > 0
    /\ \E i, j \in 1..idx :
          /\ i < j
          /\ results[i].score = highest_score
          /\ results[j].score = highest_score
          /\ best_set = <<subsets[i]>>
    /\ \E j \in FailedSubsets : j <= idx /\ results[j].score = 0

====
